---- MODULE Spec2Model ----
(***************************************************************************)
(* A model of the authy-go client (src/authy.go): a thin binding of the    *)
(* Authy two-factor HTTP API.  The client holds no mutable state; what     *)
(* changes over time is the transport (the requests it was handed) and     *)
(* the outcome of the most recent call.  Every exposed operation is one    *)
(* action: it draws its arguments and the transport's answer from small    *)
(* sets and computes its return values as the Go code does.                *)
(*                                                                         *)
(* Strings that the code parses (URLs, relative paths) are sequences of    *)
(* lexical tokens, so that url.Parse, ResolveReference and String() are    *)
(* computed and not assumed.  JSON bodies are typed trees, so that         *)
(* json.Unmarshal into a Go struct is computed field by field.             *)
(***************************************************************************)
EXTENDS Integers, Sequences, FiniteSets, TLC

VARIABLES client, sent, last

vars == <<client, sent, last>>

(* ------------------------------------------------------------------ *)
(* Bounds                                                               *)
(* ------------------------------------------------------------------ *)

\* The transport accepts at most this many requests in one behaviour.
MaxRequests == 1

(* ------------------------------------------------------------------ *)
(* Strings                                                              *)
(* ------------------------------------------------------------------ *)

RECURSIVE Concat(_)
\* The string a token sequence spells.
Concat(toks) == IF toks = <<>> THEN "" ELSE Head(toks) \o Concat(Tail(toks))

RECURSIVE JoinSegs(_)
\* strings.Join(segs, "/")
JoinSegs(segs) ==
    IF segs = <<>> THEN ""
    ELSE IF Len(segs) = 1 THEN segs[1]
    ELSE segs[1] \o "/" \o JoinSegs(Tail(segs))

RECURSIVE SplitAcc(_, _, _)
SplitAcc(toks, cur, acc) ==
    IF toks = <<>> THEN Append(acc, cur)
    ELSE IF Head(toks) = "/" THEN SplitAcc(Tail(toks), "", Append(acc, cur))
    ELSE SplitAcc(Tail(toks), cur \o Head(toks), acc)

\* strings.Split(path, "/"), the empty path having no segment at all.
Split(toks) == IF toks = <<>> THEN <<>> ELSE SplitAcc(toks, "", <<>>)

\* A token that is an invalid percent escape: url.Parse rejects a path holding one.
BadEscapes == {"%zz"}

\* fmt.Sprintf("%d", n)
FormatInt(n) == ToString(n)

(* ------------------------------------------------------------------ *)
(* Errors: Go's error values, nil included                              *)
(* ------------------------------------------------------------------ *)

NilErr == [isNil |-> TRUE, text |-> ""]

Errorf(t) == [isNil |-> FALSE, text |-> t]

ErrURLEscape == Errorf("parse: invalid URL escape")
ErrTransport == Errorf("transport: request failed")
ErrRead == Errorf("read: unexpected EOF")
ErrJSONSyntax == Errorf("json: invalid character")
ErrJSONType == Errorf("json: cannot unmarshal into Go value")

(* ------------------------------------------------------------------ *)
(* net/url                                                              *)
(* ------------------------------------------------------------------ *)

Origin == "https://api.authy.com"

Origins == {Origin}

\* var baseUrl
baseUrl == <<Origin, "/", "protected", "/">>

NoURL == [origin |-> "", path |-> <<>>, query |-> <<>>]

IndexOf(toks, t) ==
    IF \E i \in 1..Len(toks) : toks[i] = t
    THEN CHOOSE i \in 1..Len(toks) : toks[i] = t /\ \A j \in 1..(i - 1) : toks[j] # t
    ELSE 0

\* url.Parse: the origin, the path (cut at "/") up to the first "?", the raw
\* query after it.  An invalid escape in the path is an error.
URLParse(toks) ==
    LET hasOrigin == toks # <<>> /\ Head(toks) \in Origins
        rest == IF hasOrigin THEN Tail(toks) ELSE toks
        q == IndexOf(rest, "?")
        pathToks == IF q = 0 THEN rest ELSE SubSeq(rest, 1, q - 1)
        queryToks == IF q = 0 THEN <<>> ELSE SubSeq(rest, q + 1, Len(rest))
    IN  IF \E i \in 1..Len(pathToks) : pathToks[i] \in BadEscapes
        THEN [err |-> ErrURLEscape, url |-> NoURL]
        ELSE [err |-> NilErr,
              url |-> [origin |-> IF hasOrigin THEN Head(toks) ELSE "",
                       path |-> Split(pathToks),
                       query |-> queryToks]]

\* (*URL).String()
URLString(u) ==
    u.origin \o JoinSegs(u.path)
             \o (IF u.query = <<>> THEN "" ELSE "?" \o Concat(u.query))

AllButLast(s) == SubSeq(s, 1, Len(s) - 1)

RECURSIVE RemoveDots(_, _)
\* The loop of resolvePath: "." is dropped, ".." drops the element before it.
RemoveDots(full, dst) ==
    IF full = <<>> THEN dst
    ELSE IF Head(full) = "." THEN RemoveDots(Tail(full), dst)
    ELSE IF Head(full) = ".."
         THEN RemoveDots(Tail(full), IF Len(dst) <= 1 THEN <<>> ELSE AllButLast(dst))
    ELSE RemoveDots(Tail(full), Append(dst, Head(full)))

\* resolvePath(base, ref): ref merged into base's directory unless it is rooted,
\* dot segments removed, a "/" written first and a doubled leading "/" undone.
ResolvePath(base, ref) ==
    LET full == IF ref = <<>> THEN base
                ELSE IF ref[1] # "" THEN AllButLast(base) \o ref
                ELSE ref
        dst == RemoveDots(full, <<>>)
        lastDot == full # <<>> /\ full[Len(full)] \in {".", ".."}
        r0 == IF dst = <<>> THEN <<"", "">> ELSE <<"">> \o dst
        r1 == IF lastDot THEN Append(r0, "") ELSE r0
    IN  IF full = <<>> THEN <<>>
        ELSE IF Len(r1) >= 3 /\ r1[1] = "" /\ r1[2] = "" THEN Tail(r1)
        ELSE r1

\* (*URL).ResolveReference
ResolveReference(base, ref) ==
    IF ref.origin # "" THEN [ref EXCEPT !.path = ResolvePath(ref.path, <<>>)]
    ELSE [origin |-> base.origin,
          path |-> ResolvePath(base.path, ref.path),
          query |-> IF ref.path = <<>> /\ ref.query = <<>> THEN base.query ELSE ref.query]

(* ------------------------------------------------------------------ *)
(* Client construction                                                  *)
(* ------------------------------------------------------------------ *)

NoClient == [nil |-> TRUE, app |-> [ApiSecret |-> "", ApiFormat |-> ""], baseURL |-> NoURL]

\* App values a caller may configure.
Apps == { [ApiSecret |-> "verysecret", ApiFormat |-> ""],
          [ApiSecret |-> "verysecret", ApiFormat |-> "xml"],
          [ApiSecret |-> "othersecret", ApiFormat |-> "json"] }

\* NewClient without the test of ApiFormat.
NewClientAlwaysJSON(a) ==
    LET p == URLParse(baseUrl \o <<"json", "/">>)
    IN  IF ~p.err.isNil THEN NoClient
        ELSE [nil |-> FALSE, app |-> a, baseURL |-> p.url]

\* func NewClient(a App) *Client
NewClient(a) ==
    LET urlWithFormat == IF a.ApiFormat = "xml"
                         THEN baseUrl \o <<"xml", "/">>
                         ELSE baseUrl \o <<"json", "/">>
        p == URLParse(urlWithFormat)
    IN  IF ~p.err.isNil THEN NoClient
        ELSE [nil |-> FALSE, app |-> a, baseURL |-> p.url]

(* ------------------------------------------------------------------ *)
(* Request bodies: go-querystring and url.Values                        *)
(* ------------------------------------------------------------------ *)

\* strconv.FormatBool
FormatBool(b) == IF b THEN "true" ELSE "false"

\* A body object is its struct fields in declaration order, each with its
\* url tag: the key, the value as query.Values formats it, the omitempty
\* option and whether the value is the zero value of its type.
Field(k, v, omit, zero) == [key |-> k, val |-> v, omitempty |-> omit, zero |-> zero]

\* body == nil
NilBody == [nil |-> TRUE, fields |-> <<>>]

\* type AuthyUser struct, as a body object
AuthyUserBody(au) ==
    [nil |-> FALSE,
     fields |-> << Field("user[email]", au.Email, TRUE, au.Email = ""),
                   Field("user[cellphone]", au.Cellphone, FALSE, au.Cellphone = ""),
                   Field("user[country_code]", au.CountryCode, FALSE, au.CountryCode = ""),
                   Field("send_install_link_via_sms", FormatBool(au.SendInstallLink),
                         TRUE, ~au.SendInstallLink) >>]

\* The anonymous struct of TestNewRequest: struct{ Hello string `url:"hello"` }
HelloBody(v) == [nil |-> FALSE, fields |-> << Field("hello", v, FALSE, v = "") >>]

\* query.Values(body): the fields kept, an omitempty field with a zero value skipped.
QueryValues(body) ==
    { f \in { body.fields[i] : i \in 1..Len(body.fields) } : ~(f.omitempty /\ f.zero) }

\* The keys of the model's body objects in the byte order url.Values.Encode sorts by.
KeyOrder == << "hello", "send_install_link_via_sms",
               "user[cellphone]", "user[country_code]", "user[email]" >>

\* url.QueryEscape on the strings of the model: "[", "]" and "@" are escaped.
QueryEscape(str) ==
    CASE str = "user[cellphone]" -> "user%5Bcellphone%5D"
      [] str = "user[country_code]" -> "user%5Bcountry_code%5D"
      [] str = "user[email]" -> "user%5Bemail%5D"
      [] str = "a@b.c" -> "a%40b.c"
      [] OTHER -> str

RECURSIVE EncodeFrom(_, _, _)
EncodeFrom(vals, i, first) ==
    IF i > Len(KeyOrder) THEN ""
    ELSE IF \E f \in vals : f.key = KeyOrder[i]
         THEN LET f == CHOOSE g \in vals : g.key = KeyOrder[i]
              IN  (IF first THEN "" ELSE "&")
                    \o QueryEscape(f.key) \o "=" \o QueryEscape(f.val)
                    \o EncodeFrom(vals, i + 1, FALSE)
         ELSE EncodeFrom(vals, i + 1, first)

\* url.Values.Encode(): "key=value" pairs sorted by key, joined by "&".
Encode(vals) == EncodeFrom(vals, 1, TRUE)

(* ------------------------------------------------------------------ *)
(* NewRequest                                                           *)
(* ------------------------------------------------------------------ *)

NoRequest ==
    [method |-> "", url |-> "", body |-> "",
     header |-> [ContentType |-> "", Accept |-> "", UserAgent |-> "", XAuthyAPIKey |-> ""]]

\* NewRequest without ResolveReference: the relative path is used as the URL.
NewRequestUnresolved(c, method, relPath, body) ==
    LET rel == URLParse(relPath)
        out == IF ~body.nil THEN QueryValues(body) ELSE {}
    IN  IF ~rel.err.isNil THEN [err |-> rel.err, req |-> NoRequest]
        ELSE [err |-> NilErr,
              req |-> [method |-> method,
                       url |-> URLString(rel.url),
                       body |-> Encode(out),
                       header |-> [ContentType |-> "application/x-www-form-urlencoded",
                                   Accept |-> "application/json",
                                   UserAgent |-> "authy-go-client",
                                   XAuthyAPIKey |-> c.app.ApiSecret]]]

\* func (c *Client) NewRequest(method, relPath string, body interface{})
NewRequest(c, method, relPath, body) ==
    LET rel == URLParse(relPath)
        u == ResolveReference(c.baseURL, rel.url)
        out == IF ~body.nil THEN QueryValues(body) ELSE {}
    IN  IF ~rel.err.isNil THEN [err |-> rel.err, req |-> NoRequest]
        ELSE [err |-> NilErr,
              req |-> [method |-> method,
                       url |-> URLString(u),
                       body |-> Encode(out),
                       header |-> [ContentType |-> "application/x-www-form-urlencoded",
                                   Accept |-> "application/json",
                                   UserAgent |-> "authy-go-client",
                                   XAuthyAPIKey |-> c.app.ApiSecret]]]

(* ------------------------------------------------------------------ *)
(* JSON response bodies and encoding/json                               *)
(* ------------------------------------------------------------------ *)

\* A JSON value at a key of the response object, or the key's absence.
JAbsent == [t |-> "absent", b |-> FALSE, s |-> "", n |-> 0]
JBool(v) == [t |-> "bool", b |-> v, s |-> "", n |-> 0]
JStr(v) == [t |-> "string", b |-> FALSE, s |-> v, n |-> 0]
JNum(v) == [t |-> "number", b |-> FALSE, s |-> "", n |-> v]

\* A response body: text that is not JSON at all (the empty body, "{ {"),
\* the JSON value null, a JSON array, or a JSON object with the keys
\* "success", "token", "message" and "user" (holding "id").
InvalidBody ==
    [kind |-> "invalid", success |-> JAbsent, token |-> JAbsent,
     message |-> JAbsent, userid |-> JAbsent]
NullBody == [InvalidBody EXCEPT !.kind = "null"]
ArrayBody == [InvalidBody EXCEPT !.kind = "array"]
ObjectBody(su, tk, ms, id) ==
    [kind |-> "object", success |-> su, token |-> tk, message |-> ms, userid |-> id]

\* One key of an object decoded into one struct field of Go type `want`:
\* an absent key leaves the field alone, a value of the field's type sets
\* it, a value of another type leaves it alone and is a type error.
FieldMismatch(jv, want) == jv.t # "absent" /\ jv.t # want

DecodeBool(jv, cur) == IF jv.t = "bool" THEN jv.b ELSE cur
DecodeString(jv, cur) == IF jv.t = "string" THEN jv.s ELSE cur
DecodeInt(jv, cur) == IF jv.t = "number" THEN jv.n ELSE cur

\* new(ResponseMessage): the fields the operations read (type ResponseMessage struct).
ZeroResponseMessage == [Success |-> FALSE, Message |-> "", Token |-> "", User |-> [ID |-> 0]]

\* json.Unmarshal(body, resource) for resource *ResponseMessage.  Text that is
\* not JSON is rejected before anything is stored; in valid JSON every field
\* that fits is stored and the first misfit is the error returned.
UnmarshalResponseMessage(body, v) ==
    CASE body.kind = "invalid" -> [err |-> ErrJSONSyntax, v |-> v]
      [] body.kind = "null" -> [err |-> NilErr, v |-> v]
      [] body.kind = "array" -> [err |-> ErrJSONType, v |-> v]
      [] OTHER ->
           [err |-> IF \/ FieldMismatch(body.success, "bool")
                       \/ FieldMismatch(body.token, "string")
                       \/ FieldMismatch(body.message, "string")
                       \/ FieldMismatch(body.userid, "number")
                    THEN ErrJSONType ELSE NilErr,
            v |-> [Success |-> DecodeBool(body.success, v.Success),
                   Message |-> DecodeString(body.message, v.Message),
                   Token |-> DecodeString(body.token, v.Token),
                   User |-> [ID |-> DecodeInt(body.userid, v.User.ID)]]]

\* msg := struct{ Success string; Token string }{} of CheckOTPToken
ZeroVerifyMessage == [Success |-> "", Token |-> ""]

\* json.Unmarshal(body, &msg) for the struct of CheckOTPToken
UnmarshalVerifyMessage(body, v) ==
    CASE body.kind = "invalid" -> [err |-> ErrJSONSyntax, v |-> v]
      [] body.kind = "null" -> [err |-> NilErr, v |-> v]
      [] body.kind = "array" -> [err |-> ErrJSONType, v |-> v]
      [] OTHER ->
           [err |-> IF \/ FieldMismatch(body.success, "string")
                       \/ FieldMismatch(body.token, "string")
                    THEN ErrJSONType ELSE NilErr,
            v |-> [Success |-> DecodeString(body.success, v.Success),
                   Token |-> DecodeString(body.token, v.Token)]]

(* ------------------------------------------------------------------ *)
(* The transport: what c.Client.Do and ioutil.ReadAll give back         *)
(* ------------------------------------------------------------------ *)

\* The transport was not asked.
NoOutcome == [kind |-> "none", status |-> 0, body |-> InvalidBody]
\* c.Client.Do returns an error (network failure, timeout).
DoFails == [kind |-> "doErr", status |-> 0, body |-> InvalidBody]
\* A response arrives with `st` and reading its body fails.
ReadFails(st) == [kind |-> "readErr", status |-> st, body |-> InvalidBody]
\* A response arrives with `st` and its body reads as `b`.
Responds(st, b) == [kind |-> "resp", status |-> st, body |-> b]

Statuses == {200, 401}

ProviderMessage == "User not found."

\* Bodies the generic endpoints answer with.
EnvelopeBodies ==
    {InvalidBody, ArrayBody} \cup
    { ObjectBody(su, JAbsent, ms, id) :
        su \in {JAbsent, JBool(TRUE), JBool(FALSE), JStr("true")},
        ms \in {JAbsent, JStr(ProviderMessage)},
        id \in {JAbsent, JNum(12345)} }

\* Bodies the verify endpoint answers with.
VerifyBodies ==
    {InvalidBody, NullBody, ArrayBody} \cup
    { ObjectBody(su, tk, ms, JAbsent) :
        su \in {JAbsent, JBool(TRUE), JBool(FALSE), JStr("true"), JStr("false")},
        tk \in {JAbsent, JStr("is valid"), JStr("is invalid")},
        ms \in {JAbsent} }

OutcomesOver(bodies) ==
    {DoFails} \cup { ReadFails(st) : st \in Statuses }
              \cup { Responds(st, b) : st \in Statuses, b \in bodies }

EnvelopeOutcomes == OutcomesOver(EnvelopeBodies)
VerifyOutcomes == OutcomesOver(VerifyBodies)

(* ------------------------------------------------------------------ *)
(* Get and Post                                                         *)
(* ------------------------------------------------------------------ *)

\* The exchange with the error of json.Unmarshal returned instead of dropped.
ExchangeReturnsDecodeError(built, o, resource) ==
    IF ~built.err.isNil THEN [err |-> built.err, resource |-> resource, reqs |-> <<>>]
    ELSE IF o.kind = "doErr"
         THEN [err |-> ErrTransport, resource |-> resource, reqs |-> <<built.req>>]
    ELSE IF o.kind = "readErr"
         THEN [err |-> ErrRead, resource |-> resource, reqs |-> <<built.req>>]
    ELSE [err |-> UnmarshalResponseMessage(o.body, resource).err,
          resource |-> UnmarshalResponseMessage(o.body, resource).v,
          reqs |-> <<built.req>>]

\* The exchange shared by Get and Post once the request is built: Do, ReadAll,
\* then json.Unmarshal whose error is dropped.  `reqs` are the requests handed
\* to the transport.
Exchange(built, o, resource) ==
    IF ~built.err.isNil THEN [err |-> built.err, resource |-> resource, reqs |-> <<>>]
    ELSE IF o.kind = "doErr"
         THEN [err |-> ErrTransport, resource |-> resource, reqs |-> <<built.req>>]
    ELSE IF o.kind = "readErr"
         THEN [err |-> ErrRead, resource |-> resource, reqs |-> <<built.req>>]
    ELSE [err |-> NilErr,
          resource |-> UnmarshalResponseMessage(o.body, resource).v,
          reqs |-> <<built.req>>]

\* func (c *Client) Get(relPath string, resource interface{}) error
Get(c, relPath, o, resource) == Exchange(NewRequest(c, "GET", relPath, NilBody), o, resource)

\* func (c *Client) Post(relPath string, body interface{}, resource interface{}) error
Post(c, relPath, body, o, resource) == Exchange(NewRequest(c, "POST", relPath, body), o, resource)

(* ------------------------------------------------------------------ *)
(* The operations.  Each gives its return values and `reqs`, the        *)
(* requests it handed to the transport.  A nil *ResponseMessage is      *)
(* msgNil, with msg then the zero value.                                *)
(* ------------------------------------------------------------------ *)

Returns(ok, n, msg, msgNil, err, reqs) ==
    [ok |-> ok, n |-> n, msg |-> msg, msgNil |-> msgNil, err |-> err, reqs |-> reqs]

\* func (c *Client) GetAppInfo() (*ResponseMessage, error)
GetAppInfo(c, o) ==
    LET g == Get(c, <<"app", "/", "details">>, o, ZeroResponseMessage)
    IN  Returns(FALSE, 0, g.resource, FALSE, NilErr, g.reqs)

\* CreateUser rejecting its input only when both cellphone and country code are empty.
CreateUserRejectsOnlyBothEmpty(c, au, o) ==
    IF au.Cellphone = "" /\ au.CountryCode = ""
    THEN Returns(FALSE, 0, ZeroResponseMessage, TRUE,
                 Errorf("AUTHY: insufficient data provided to create user"), <<>>)
    ELSE LET g == Post(c, <<"users", "/", "new">>, AuthyUserBody(au), o, ZeroResponseMessage)
         IN  IF ~g.err.isNil
             THEN Returns(FALSE, 0, ZeroResponseMessage, TRUE, g.err, g.reqs)
             ELSE IF ~g.resource.Success
             THEN Returns(FALSE, 0, ZeroResponseMessage, TRUE,
                          Errorf("AUTHY: create not successful " \o g.resource.Message),
                          g.reqs)
             ELSE Returns(FALSE, g.resource.User.ID, ZeroResponseMessage, TRUE, NilErr, g.reqs)

\* CreateUser returning the decoded user id beside the error of a rejection.
CreateUserKeepsIDOnRejection(c, au, o) ==
    IF au.Cellphone = "" \/ au.CountryCode = ""
    THEN Returns(FALSE, 0, ZeroResponseMessage, TRUE,
                 Errorf("AUTHY: insufficient data provided to create user"), <<>>)
    ELSE LET g == Post(c, <<"users", "/", "new">>, AuthyUserBody(au), o, ZeroResponseMessage)
         IN  IF ~g.err.isNil
             THEN Returns(FALSE, 0, ZeroResponseMessage, TRUE, g.err, g.reqs)
             ELSE IF ~g.resource.Success
             THEN Returns(FALSE, g.resource.User.ID, ZeroResponseMessage, TRUE,
                          Errorf("AUTHY: create not successful " \o g.resource.Message),
                          g.reqs)
             ELSE Returns(FALSE, g.resource.User.ID, ZeroResponseMessage, TRUE, NilErr, g.reqs)

\* func (c *Client) CreateUser(au AuthyUser) (int64, error)
CreateUser(c, au, o) ==
    IF au.Cellphone = "" \/ au.CountryCode = ""
    THEN Returns(FALSE, 0, ZeroResponseMessage, TRUE,
                 Errorf("AUTHY: insufficient data provided to create user"), <<>>)
    ELSE LET g == Post(c, <<"users", "/", "new">>, AuthyUserBody(au), o, ZeroResponseMessage)
         IN  IF ~g.err.isNil
             THEN Returns(FALSE, 0, ZeroResponseMessage, TRUE, g.err, g.reqs)
             ELSE IF ~g.resource.Success
             THEN Returns(FALSE, 0, ZeroResponseMessage, TRUE,
                          Errorf("AUTHY: create not successful " \o g.resource.Message),
                          g.reqs)
             ELSE Returns(FALSE, g.resource.User.ID, ZeroResponseMessage, TRUE, NilErr, g.reqs)

\* RemoveUser reporting a rejection with a fixed text instead of the message.
RemoveUserFixedText(c, authyUserID, o) ==
    LET path == <<"users", "/", FormatInt(authyUserID), "/", "remove">>
        g == Post(c, path, NilBody, o, ZeroResponseMessage)
    IN  IF ~g.err.isNil
        THEN Returns(FALSE, 0, ZeroResponseMessage, TRUE, g.err, g.reqs)
        ELSE IF ~g.resource.Success
        THEN Returns(FALSE, 0, ZeroResponseMessage, TRUE,
                     Errorf("AUTHY: remove not successful"), g.reqs)
        ELSE Returns(FALSE, 0, ZeroResponseMessage, TRUE, NilErr, g.reqs)

\* func (c *Client) RemoveUser(authyUserID int64) error
RemoveUser(c, authyUserID, o) ==
    LET path == <<"users", "/", FormatInt(authyUserID), "/", "remove">>
        g == Post(c, path, NilBody, o, ZeroResponseMessage)
    IN  IF ~g.err.isNil
        THEN Returns(FALSE, 0, ZeroResponseMessage, TRUE, g.err, g.reqs)
        ELSE IF ~g.resource.Success
        THEN Returns(FALSE, 0, ZeroResponseMessage, TRUE, Errorf(g.resource.Message), g.reqs)
        ELSE Returns(FALSE, 0, ZeroResponseMessage, TRUE, NilErr, g.reqs)

\* func (c *Client) UserStatus(authyUserID int64) (*ResponseMessage, error)
UserStatus(c, authyUserID, o) ==
    LET path == <<"users", "/", FormatInt(authyUserID), "/", "status">>
        g == Get(c, path, o, ZeroResponseMessage)
    IN  IF ~g.err.isNil
        THEN Returns(FALSE, 0, ZeroResponseMessage, TRUE, g.err, g.reqs)
        ELSE Returns(FALSE, 0, g.resource, FALSE, NilErr, g.reqs)

\* SendOTPWithAction judging success by the transport error alone: the
\* envelope it returns is marked successful whenever Get returned nil.
SendOTPWithActionSuccessOnNilError(c, authyUserID, action, actionMessage, o) ==
    LET path0 == <<"sms", "/", FormatInt(authyUserID)>>
        path1 == IF action # "" THEN path0 \o <<"?", "action=", action>> ELSE path0
        path == IF action # "" /\ actionMessage # ""
                THEN path1 \o <<"&", "action_message=", actionMessage>>
                ELSE path1
        g == Get(c, path, o, ZeroResponseMessage)
    IN  IF ~g.err.isNil
        THEN Returns(FALSE, 0, g.resource, FALSE, g.err, g.reqs)
        ELSE Returns(FALSE, 0, [g.resource EXCEPT !.Success = TRUE], FALSE, NilErr, g.reqs)

\* func (c *Client) SendOTPWithAction(authyUserID int64, action, actionMessage string)
SendOTPWithAction(c, authyUserID, action, actionMessage, o) ==
    LET path0 == <<"sms", "/", FormatInt(authyUserID)>>
        path1 == IF action # "" THEN path0 \o <<"?", "action=", action>> ELSE path0
        path == IF action # "" /\ actionMessage # ""
                THEN path1 \o <<"&", "action_message=", actionMessage>>
                ELSE path1
        g == Get(c, path, o, ZeroResponseMessage)
    IN  IF ~g.err.isNil
        THEN Returns(FALSE, 0, g.resource, FALSE, g.err, g.reqs)
        ELSE Returns(FALSE, 0, g.resource, FALSE, NilErr, g.reqs)

\* func (c *Client) SendOTP(authyUserID int64) (*ResponseMessage, error)
SendOTP(c, authyUserID, o) == SendOTPWithAction(c, authyUserID, "", "", o)

\* CheckOTPToken without the check of the status code.
CheckOTPTokenIgnoresStatus(c, authyUserID, token, o) ==
    IF authyUserID = 0 \/ token = ""
    THEN Returns(FALSE, 0, ZeroResponseMessage, TRUE,
                 Errorf("authyUserID or token not provided"), <<>>)
    ELSE LET path == <<"verify", "/", token, "/", FormatInt(authyUserID)>>
             built == NewRequest(c, "GET", path, NilBody)
             dec == UnmarshalVerifyMessage(o.body, ZeroVerifyMessage)
         IN  IF ~built.err.isNil
             THEN Returns(FALSE, 0, ZeroResponseMessage, TRUE, built.err, <<>>)
             ELSE IF o.kind = "doErr"
             THEN Returns(FALSE, 0, ZeroResponseMessage, TRUE, ErrTransport, <<built.req>>)
             ELSE IF o.kind = "readErr"
             THEN Returns(FALSE, 0, ZeroResponseMessage, TRUE, ErrRead, <<built.req>>)
             ELSE IF ~dec.err.isNil
             THEN Returns(FALSE, 0, ZeroResponseMessage, TRUE, dec.err, <<built.req>>)
             ELSE IF dec.v.Success = "true" /\ dec.v.Token = "is valid"
             THEN Returns(TRUE, 0, ZeroResponseMessage, TRUE, NilErr, <<built.req>>)
             ELSE Returns(FALSE, 0, ZeroResponseMessage, TRUE, NilErr, <<built.req>>)

\* CheckOTPToken dropping the error of json.Unmarshal, as Get and Post do.
CheckOTPTokenDropsDecodeError(c, authyUserID, token, o) ==
    IF authyUserID = 0 \/ token = ""
    THEN Returns(FALSE, 0, ZeroResponseMessage, TRUE,
                 Errorf("authyUserID or token not provided"), <<>>)
    ELSE LET path == <<"verify", "/", token, "/", FormatInt(authyUserID)>>
             built == NewRequest(c, "GET", path, NilBody)
             dec == UnmarshalVerifyMessage(o.body, ZeroVerifyMessage)
         IN  IF ~built.err.isNil
             THEN Returns(FALSE, 0, ZeroResponseMessage, TRUE, built.err, <<>>)
             ELSE IF o.kind = "doErr"
             THEN Returns(FALSE, 0, ZeroResponseMessage, TRUE, ErrTransport, <<built.req>>)
             ELSE IF o.status # 200
             THEN Returns(FALSE, 0, ZeroResponseMessage, TRUE,
                          Errorf("invalid token"), <<built.req>>)
             ELSE IF o.kind = "readErr"
             THEN Returns(FALSE, 0, ZeroResponseMessage, TRUE, ErrRead, <<built.req>>)
             ELSE IF dec.v.Success = "true" /\ dec.v.Token = "is valid"
             THEN Returns(TRUE, 0, ZeroResponseMessage, TRUE, NilErr, <<built.req>>)
             ELSE Returns(FALSE, 0, ZeroResponseMessage, TRUE, NilErr, <<built.req>>)

\* func (c *Client) CheckOTPToken(authyUserID int64, token string) (bool, error)
CheckOTPToken(c, authyUserID, token, o) ==
    IF authyUserID = 0 \/ token = ""
    THEN Returns(FALSE, 0, ZeroResponseMessage, TRUE,
                 Errorf("authyUserID or token not provided"), <<>>)
    ELSE LET path == <<"verify", "/", token, "/", FormatInt(authyUserID)>>
             built == NewRequest(c, "GET", path, NilBody)
             dec == UnmarshalVerifyMessage(o.body, ZeroVerifyMessage)
         IN  IF ~built.err.isNil
             THEN Returns(FALSE, 0, ZeroResponseMessage, TRUE, built.err, <<>>)
             ELSE IF o.kind = "doErr"
             THEN Returns(FALSE, 0, ZeroResponseMessage, TRUE, ErrTransport, <<built.req>>)
             ELSE IF o.status # 200
             THEN Returns(FALSE, 0, ZeroResponseMessage, TRUE,
                          Errorf("invalid token"), <<built.req>>)
             ELSE IF o.kind = "readErr"
             THEN Returns(FALSE, 0, ZeroResponseMessage, TRUE, ErrRead, <<built.req>>)
             ELSE IF ~dec.err.isNil
             THEN Returns(FALSE, 0, ZeroResponseMessage, TRUE, dec.err, <<built.req>>)
             ELSE IF dec.v.Success = "true" /\ dec.v.Token = "is valid"
             THEN Returns(TRUE, 0, ZeroResponseMessage, TRUE, NilErr, <<built.req>>)
             ELSE Returns(FALSE, 0, ZeroResponseMessage, TRUE, NilErr, <<built.req>>)

(* ------------------------------------------------------------------ *)
(* Inputs                                                               *)
(* ------------------------------------------------------------------ *)

\* User identifiers: 0 is the zero value CheckOTPToken rejects.
UserIDs == {0, 1234567}

\* The identifiers given to the operations that do not look at the identifier.
RegisteredUserIDs == {1234567}

Tokens == {"", "atokenforyou", "..", "%zz"}

AuthyUsers ==
    [Email : {"", "a@b.c"}, Cellphone : {"", "111111111"},
     CountryCode : {"", "61"}, SendInstallLink : BOOLEAN]

NoAuthyUser == [Email |-> "", Cellphone |-> "", CountryCode |-> "", SendInstallLink |-> FALSE]

Actions == {"", "login"}

ActionMessages == {"", "hello"}

\* Relative paths and bodies handed to NewRequest directly, as TestNewRequest does.
RelPaths == { <<"some", "/", "thing">>, <<"/", "rooted">>, <<"up", "/", "..", "/", "%zz">> }

RequestBodies == {NilBody, HelloBody("World")}

(* ------------------------------------------------------------------ *)
(* State: the client, the transport's log, the latest call              *)
(* ------------------------------------------------------------------ *)

Args(id, token, au, action, actionMessage, relPath, body) ==
    [id |-> id, token |-> token, au |-> au, action |-> action,
     actionMessage |-> actionMessage, relPath |-> relPath, body |-> body]

NoArgs == Args(0, "", NoAuthyUser, "", "", <<>>, NilBody)

NoReturns == Returns(FALSE, 0, ZeroResponseMessage, TRUE, NilErr, <<>>)

\* The record of a call: the operation, its arguments, what the transport
\* answered (NoOutcome when the call never reached it) and what it returned.
Call(op, args, o, ret) ==
    [op |-> op, args |-> args,
     out |-> IF ret.reqs = <<>> THEN NoOutcome ELSE o,
     ret |-> ret]

Init ==
    /\ client \in { NewClient(a) : a \in Apps }
    /\ sent = <<>>
    /\ last = Call("none", NoArgs, NoOutcome, NoReturns)

\* The answers the transport may give a call.  `probe` is the call under a
\* failing transport: a call that hands the transport no request is given
\* no answer, and a transport that has taken MaxRequests takes no more.
Answers(probe, outcomes) ==
    IF probe.reqs = <<>> THEN {NoOutcome}
    ELSE IF Len(sent) < MaxRequests THEN outcomes
    ELSE {}

\* An operation ran: its requests reach the transport, its record is kept.
Ran(op, args, o, ret) ==
    /\ Len(sent) + Len(ret.reqs) <= MaxRequests
    /\ sent' = sent \o ret.reqs
    /\ last' = Call(op, args, o, ret)
    /\ UNCHANGED client

CallNewRequest ==
    \E m \in {"GET"}, rp \in RelPaths, b \in RequestBodies :
        LET built == NewRequest(client, m, rp, b)
        IN  /\ last' = [op |-> "NewRequest",
                        args |-> Args(0, "", NoAuthyUser, "", "", rp, b),
                        out |-> NoOutcome,
                        ret |-> Returns(FALSE, 0, ZeroResponseMessage, TRUE, built.err,
                                        IF built.err.isNil THEN <<built.req>> ELSE <<>>)]
            /\ UNCHANGED <<client, sent>>

CallGetAppInfo ==
    \E o \in Answers(GetAppInfo(client, DoFails), EnvelopeOutcomes) :
        Ran("GetAppInfo", NoArgs, o, GetAppInfo(client, o))

CallCreateUser ==
    \E au \in AuthyUsers :
        \E o \in Answers(CreateUser(client, au, DoFails), EnvelopeOutcomes) :
            Ran("CreateUser", Args(0, "", au, "", "", <<>>, NilBody), o,
                CreateUser(client, au, o))

CallRemoveUser ==
    \E id \in RegisteredUserIDs :
        \E o \in Answers(RemoveUser(client, id, DoFails), EnvelopeOutcomes) :
            Ran("RemoveUser", Args(id, "", NoAuthyUser, "", "", <<>>, NilBody), o,
                RemoveUser(client, id, o))

CallUserStatus ==
    \E id \in RegisteredUserIDs :
        \E o \in Answers(UserStatus(client, id, DoFails), EnvelopeOutcomes) :
            Ran("UserStatus", Args(id, "", NoAuthyUser, "", "", <<>>, NilBody), o,
                UserStatus(client, id, o))

CallSendOTP ==
    \E id \in RegisteredUserIDs :
        \E o \in Answers(SendOTP(client, id, DoFails), EnvelopeOutcomes) :
            Ran("SendOTP", Args(id, "", NoAuthyUser, "", "", <<>>, NilBody), o,
                SendOTP(client, id, o))

CallSendOTPWithAction ==
    \E id \in RegisteredUserIDs, a \in Actions, am \in ActionMessages :
        \E o \in Answers(SendOTPWithAction(client, id, a, am, DoFails), EnvelopeOutcomes) :
            Ran("SendOTPWithAction", Args(id, "", NoAuthyUser, a, am, <<>>, NilBody), o,
                SendOTPWithAction(client, id, a, am, o))

CallCheckOTPToken ==
    \E id \in UserIDs, t \in Tokens :
        \E o \in Answers(CheckOTPToken(client, id, t, DoFails), VerifyOutcomes) :
            Ran("CheckOTPToken", Args(id, t, NoAuthyUser, "", "", <<>>, NilBody), o,
                CheckOTPToken(client, id, t, o))

Next ==
    \/ CallNewRequest
    \/ CallGetAppInfo
    \/ CallCreateUser
    \/ CallRemoveUser
    \/ CallUserStatus
    \/ CallSendOTP
    \/ CallSendOTPWithAction
    \/ CallCheckOTPToken

Spec == Init /\ [][Next]_vars

(* ------------------------------------------------------------------ *)
(* What a response says, read off the JSON itself                       *)
(* ------------------------------------------------------------------ *)

\* The latest call, its transport answer and its return values.
Op == last.op
Out == last.out
Ret == last.ret
Answered == Out.kind = "resp"
BaseURLString == URLString(client.baseURL)

\* The envelope's success flag: the JSON boolean at "success", false without one.
EnvelopeSuccess(b) == b.kind = "object" /\ b.success = JBool(TRUE)

\* The provider's message: the JSON string at "message", empty without one.
EnvelopeMessage(b) == IF b.kind = "object" /\ b.message.t = "string" THEN b.message.s ELSE ""

\* The user id of the response: the JSON number at "user"."id", 0 without one.
EnvelopeUserID(b) == IF b.kind = "object" /\ b.userid.t = "number" THEN b.userid.n ELSE 0

\* The body does not decode into the general envelope: it is not JSON, or
\* not an object, or some key holds a value of the wrong JSON type.
EnvelopeDecodeFails(b) ==
    \/ b.kind \in {"invalid", "array"}
    \/ /\ b.kind = "object"
       /\ \/ b.success.t \notin {"absent", "bool"}
          \/ b.message.t \notin {"absent", "string"}
          \/ b.token.t \notin {"absent", "string"}
          \/ b.userid.t \notin {"absent", "number"}

\* The body decodes into the verification result: success and token are
\* JSON strings where present.
VerifyDecodes(b) ==
    \/ b.kind = "null"
    \/ /\ b.kind = "object"
       /\ b.success.t \in {"absent", "string"}
       /\ b.token.t \in {"absent", "string"}

VerifyPairValid(b) ==
    b.kind = "object" /\ b.success = JStr("true") /\ b.token = JStr("is valid")

(* ------------------------------------------------------------------ *)
(* C1                                                                   *)
(* ------------------------------------------------------------------ *)

\* C1: CheckOTPToken, called with a non-zero user id and a non-empty token,
\* returns true exactly when the exchange completes with status 200 and the
\* body decodes with success "true" and token "is valid"; it returns false
\* for every other status, success value or token value.
C1_CheckOTPTokenTrueIffValid ==
    (Op = "CheckOTPToken" /\ last.args.id # 0 /\ last.args.token # "")
        => (Ret.ok <=> (/\ Answered
                        /\ Out.status = 200
                        /\ VerifyDecodes(Out.body)
                        /\ VerifyPairValid(Out.body)))

C1_Witness ==
    /\ Op = "CheckOTPToken"
    /\ Out = Responds(200, ObjectBody(JStr("true"), JStr("is valid"), JAbsent, JAbsent))
    /\ Ret.ok

(* ------------------------------------------------------------------ *)
(* C2                                                                   *)
(* ------------------------------------------------------------------ *)

\* C2: CheckOTPToken returns (false, error) for every response whose status
\* is not 200, whatever its body, and for every status-200 response whose
\* body fails to decode; it returns (false, nil) only when a status-200 body
\* decodes and the success/token pair is not ("true", "is valid"); it never
\* returns true together with an error.
C2_CheckOTPTokenErrors ==
    Op = "CheckOTPToken" =>
        /\ (Answered /\ Out.status # 200) => (~Ret.ok /\ ~Ret.err.isNil)
        /\ (Answered /\ Out.status = 200 /\ ~VerifyDecodes(Out.body))
               => (~Ret.ok /\ ~Ret.err.isNil)
        /\ (~Ret.ok /\ Ret.err.isNil)
               => (/\ Answered
                   /\ Out.status = 200
                   /\ VerifyDecodes(Out.body)
                   /\ ~VerifyPairValid(Out.body))
        /\ ~(Ret.ok /\ ~Ret.err.isNil)

C2_Witness ==
    /\ Op = "CheckOTPToken"
    /\ Out = Responds(401, ObjectBody(JStr("true"), JStr("is valid"), JAbsent, JAbsent))
    /\ ~Ret.ok
    /\ Ret.err = Errorf("invalid token")

(* ------------------------------------------------------------------ *)
(* C3                                                                   *)
(* ------------------------------------------------------------------ *)

CreateUserInputInvalid(a) == a.au.Cellphone = "" \/ a.au.CountryCode = ""
CheckOTPTokenInputInvalid(a) == a.id = 0 \/ a.token = ""

\* C3: a call whose input validation fails returns an error and hands the
\* transport nothing: CreateUser with an empty cellphone or country code
\* returns (0, error), CheckOTPToken with a zero user id or an empty token
\* returns (false, error), and the transport's log is the same after the
\* call as before it.
C3_ValidationFailsBeforeAnyRequest ==
    [][ /\ (last'.op = "CreateUser" /\ CreateUserInputInvalid(last'.args))
            => (/\ sent' = sent
                /\ last'.ret.reqs = <<>>
                /\ last'.ret.n = 0
                /\ ~last'.ret.err.isNil)
        /\ (last'.op = "CheckOTPToken" /\ CheckOTPTokenInputInvalid(last'.args))
            => (/\ sent' = sent
                /\ last'.ret.reqs = <<>>
                /\ ~last'.ret.ok
                /\ ~last'.ret.err.isNil) ]_vars

C3_Witness ==
    /\ Op = "CreateUser"
    /\ last.args.au.Cellphone # ""
    /\ last.args.au.CountryCode = ""
    /\ Ret.n = 0
    /\ ~Ret.err.isNil
    /\ Len(sent) = 1

(* ------------------------------------------------------------------ *)
(* C4                                                                   *)
(* ------------------------------------------------------------------ *)

\* C4: CreateUser with a cellphone and a country code returns (id, nil),
\* id being the response's user id, when the envelope has success true, and
\* (0, error carrying the provider's message) when it has not; it never
\* returns a non-zero id together with an error.
C4_CreateUserResult ==
    Op = "CreateUser" =>
        /\ (Answered /\ EnvelopeSuccess(Out.body))
               => (Ret.n = EnvelopeUserID(Out.body) /\ Ret.err.isNil)
        /\ (Answered /\ ~EnvelopeSuccess(Out.body))
               => (/\ Ret.n = 0
                   /\ Ret.err = Errorf("AUTHY: create not successful "
                                         \o EnvelopeMessage(Out.body)))
        /\ ~(Ret.n # 0 /\ ~Ret.err.isNil)

C4_Witness ==
    /\ Op = "CreateUser"
    /\ Answered
    /\ Out.body = ObjectBody(JBool(TRUE), JAbsent, JAbsent, JNum(12345))
    /\ Ret.n = 12345
    /\ Ret.err.isNil

(* ------------------------------------------------------------------ *)
(* C5                                                                   *)
(* ------------------------------------------------------------------ *)

TransportFailed == Out.kind \in {"doErr", "readErr"}

\* C5: every operation that performs an HTTP exchange returns an error when
\* the transport fails to send the request or to read the response body.
C5_TransportFailurePropagated ==
    (Op \in {"GetAppInfo", "CreateUser", "RemoveUser", "UserStatus", "SendOTP",
             "SendOTPWithAction", "CheckOTPToken"} /\ TransportFailed)
        => ~Ret.err.isNil

(* ------------------------------------------------------------------ *)
(* C6                                                                   *)
(* ------------------------------------------------------------------ *)

\* C6: SendOTP and SendOTPWithAction return a non-nil envelope whose Success
\* flag is the success flag of the response envelope, whatever the HTTP
\* status; without a decodable envelope (no response, or a body that is not
\* a JSON object) the flag is false.
C6_SendOTPSuccessFlag ==
    Op \in {"SendOTP", "SendOTPWithAction"} =>
        /\ ~Ret.msgNil
        /\ Ret.msg.Success = (Answered /\ EnvelopeSuccess(Out.body))

C6_Witness ==
    /\ Op = "SendOTPWithAction"
    /\ Answered
    /\ Out.status = 401
    /\ EnvelopeSuccess(Out.body)
    /\ Ret.msg.Success

(* ------------------------------------------------------------------ *)
(* C7                                                                   *)
(* ------------------------------------------------------------------ *)

\* C7: RemoveUser returns nil exactly when the exchange completes and the
\* envelope has success true; when the envelope reports non-success the
\* error's text is the provider's message.
C7_RemoveUserResult ==
    Op = "RemoveUser" =>
        /\ Ret.err.isNil <=> (Answered /\ EnvelopeSuccess(Out.body))
        /\ (Answered /\ ~EnvelopeSuccess(Out.body))
               => Ret.err = Errorf(EnvelopeMessage(Out.body))

C7_Witness ==
    /\ Op = "RemoveUser"
    /\ Answered
    /\ Out.body = ObjectBody(JBool(FALSE), JAbsent, JStr(ProviderMessage), JAbsent)
    /\ Ret.err = Errorf(ProviderMessage)

(* ------------------------------------------------------------------ *)
(* C8                                                                   *)
(* ------------------------------------------------------------------ *)

\* C8: the client NewClient returns has the base URL
\* https://api.authy.com/protected/json/ when ApiFormat is empty and
\* https://api.authy.com/protected/xml/ when it is "xml", and no later
\* operation changes the base URL of a constructed client.
C8_BaseURLByFormatAndFixed ==
    /\ [](/\ ~client.nil
          /\ client.app.ApiFormat = ""
                 => BaseURLString = "https://api.authy.com/protected/json/"
          /\ client.app.ApiFormat = "xml"
                 => BaseURLString = "https://api.authy.com/protected/xml/")
    /\ [][client'.baseURL = client.baseURL]_vars

C8_Witness ==
    /\ client.app.ApiFormat = "xml"
    /\ BaseURLString = "https://api.authy.com/protected/xml/"
    /\ Op = "CheckOTPToken"
    /\ Len(sent) = 1

(* ------------------------------------------------------------------ *)
(* C9                                                                   *)
(* ------------------------------------------------------------------ *)

\* The relative path each call asks for, as the text the code formats.
ExpectedRelPath ==
    LET a == last.args
        id == ToString(a.id)
    IN  CASE Op = "GetAppInfo" -> "app/details"
          [] Op = "CreateUser" -> "users/new"
          [] Op = "RemoveUser" -> "users/" \o id \o "/remove"
          [] Op = "UserStatus" -> "users/" \o id \o "/status"
          [] Op = "SendOTP" -> "sms/" \o id
          [] Op = "SendOTPWithAction" ->
                "sms/" \o id
                  \o (IF a.action = "" THEN ""
                      ELSE "?action=" \o a.action
                             \o (IF a.actionMessage = "" THEN ""
                                 ELSE "&action_message=" \o a.actionMessage))
          [] Op = "CheckOTPToken" -> "verify/" \o a.token \o "/" \o id
          [] OTHER -> Concat(a.relPath)

\* The URL a relative path resolves to against the base URL: the base URL
\* followed by the path; a rooted path replaces the base URL's path, and
\* "x/../" cancels out.
ExpectedURL ==
    CASE Op = "NewRequest" /\ last.args.relPath = <<"/", "rooted">> ->
            "https://api.authy.com/rooted"
      [] Op = "CheckOTPToken" /\ last.args.token = ".." ->
            BaseURLString \o ToString(last.args.id)
      [] OTHER -> BaseURLString \o ExpectedRelPath

\* The form encoding of the body object each call passes.
ExpectedBody ==
    LET au == last.args.au
    IN  CASE Op = "CreateUser" ->
                (IF au.SendInstallLink THEN "send_install_link_via_sms=true&" ELSE "")
                  \o "user%5Bcellphone%5D=" \o au.Cellphone
                  \o "&user%5Bcountry_code%5D=" \o au.CountryCode
                  \o (IF au.Email = "" THEN ""
                      ELSE "&user%5Bemail%5D=" \o (IF au.Email = "a@b.c" THEN "a%40b.c"
                                                   ELSE au.Email))
          [] Op = "NewRequest" /\ last.args.body = HelloBody("World") -> "hello=World"
          [] OTHER -> ""

\* C9: every request NewRequest builds, and so every request an operation
\* sends, has as URL the relative path resolved against the client's base
\* URL, as body the key=value form encoding of the body object's fields
\* (empty for a nil body), and the client's API secret in X-Authy-API-Key.
C9_RequestWellFormed ==
    /\ Ret.reqs # <<>> =>
          /\ Ret.reqs[1].url = ExpectedURL
          /\ Ret.reqs[1].body = ExpectedBody
          /\ Ret.reqs[1].header.XAuthyAPIKey = client.app.ApiSecret
          /\ Op # "NewRequest" => sent[Len(sent)] = Ret.reqs[1]
    /\ \A i \in 1..Len(sent) :
          /\ sent[i].header.XAuthyAPIKey = client.app.ApiSecret
          /\ \E suffix \in {"app/details", "users/new", "users/1234567/remove",
                            "users/1234567/status", "sms/1234567",
                            "sms/1234567?action=login",
                            "sms/1234567?action=login&action_message=hello",
                            "verify/atokenforyou/1234567", "1234567"} :
                sent[i].url = BaseURLString \o suffix

C9_Witness ==
    /\ Op = "CreateUser"
    /\ client.app.ApiFormat = "xml"
    /\ Len(sent) = 1
    /\ sent[1].method = "POST"
    /\ sent[1].url = "https://api.authy.com/protected/xml/users/new"
    /\ sent[1].body = "send_install_link_via_sms=true&user%5Bcellphone%5D=111111111"
                        \o "&user%5Bcountry_code%5D=61&user%5Bemail%5D=a%40b.c"
    /\ sent[1].header.XAuthyAPIKey = "verysecret"

(* ------------------------------------------------------------------ *)
(* C10                                                                  *)
(* ------------------------------------------------------------------ *)

GenericOps == {"GetAppInfo", "UserStatus", "SendOTP", "SendOTPWithAction",
               "CreateUser", "RemoveUser"}

EnvelopeOps == {"UserStatus", "SendOTP", "SendOTPWithAction"}

DecodeFailed == Answered /\ EnvelopeDecodeFails(Out.body)

\* What best-effort decoding leaves in the envelope: every key whose value
\* fits its field, and the zero value elsewhere.
FittingFields(b) ==
    [Success |-> EnvelopeSuccess(b),
     Message |-> EnvelopeMessage(b),
     Token |-> IF b.kind = "object" /\ b.token.t = "string" THEN b.token.s ELSE "",
     User |-> [ID |-> EnvelopeUserID(b)]]

====
